---- MODULE Spec2Model ----
(***************************************************************************)
(* Verification model of the AdvancedRules control plane.                  *)
(*                                                                         *)
(*  Part I  - the queue-backed step executor (exec_queue/tasks.py):        *)
(*            execute_step run by Celery workers against a shared Redis.   *)
(*  Part II - the in-process flow runner (tools/flow/flow_runner.py):      *)
(*            execute_flow / _execute_dag / _execute_node.                 *)
(*                                                                         *)
(*  Part III - the command line (cli/ar_flow.py): `flow run` driving the   *)
(*            flow runner.                                                 *)
(*  Part IV - the flow linter (tools/flow/flow_linter.py), a pure function *)
(*            of the registry document.                                    *)
(*  Part V  - the label sanitizer of the metrics collector                 *)
(*            (observability/collector.py).                                *)
(*  Part VI - the collector helpers (observability/collector.py) behind    *)
(*            the AR_ENABLE_METRICS switch.                                *)
(*  Part VII - the metrics gate (scripts/assert_metrics.py) reading one    *)
(*            scrape of the exposition text.                               *)
(*  Part VIII - the priority scheduler                                     *)
(*            (tools/planning/priority_scheduler.py).                      *)
(*  Part IX - the derivation of the idempotency key                        *)
(*            (exec_queue/tasks.py: _payload_hash, _idempotency_key).      *)
(*                                                                         *)
(* Each part has its own specification (QueueSpec, FlowSpec, CliSpec,      *)
(* LintSpec, LabelSpec, CollectorSpec, GateSpec, SchedulerSpec, KeySpec);  *)
(* the variables of the other parts keep their initial value.              *)
(***************************************************************************)
EXTENDS Integers, Sequences, FiniteSets, TLC

(***************************************************************************)
(* Bounds of the model                                                     *)
(***************************************************************************)
\* last fixed window the model clock reaches (windows 0..MaxWindow)
MaxWindow == 1
\* scaled-down stand-ins for the per-persona limits N of RATE_LIMITS
LimitPO == 1
LimitAuditor == 2

\* largest `retries` value a node of the modelled flows carries
MaxNodeRetries == 1

\* longest `guards` list of a flow of the modelled registry
MaxGuards == 2

(***************************************************************************)
(* Program constants                                                       *)
(***************************************************************************)
\* retry_kwargs={"max_retries": 3}; also Celery's default Task.max_retries
MAX_RETRIES == 3

\* submitted StepTask messages (each is retried under its own request id)
Tasks == {"t1", "t2"}
\* distinct values of (flow_id, task_id, step_id, payload), i.e. of the
\* idempotency key derived from them
Keys == {"k1", "k2"}
Personas == {"PO_AI", "AUDITOR_AI"}
ExecModes == {"dry_run", "live"}
Windows == 0..MaxWindow

\* RATE_LIMITS: persona -> N (the window length is the unit of the clock)
RATE_LIMITS == [p \in Personas |-> IF p = "PO_AI" THEN LimitPO ELSE LimitAuditor]

VARIABLES
    \* ---- Part I: queue-backed executor ----
    ALLOW_WRITES,     \* os.getenv("ALLOW_WRITES") == "1"
    AR_ENABLE_METRICS,\* os.getenv("AR_ENABLE_METRICS") == "1"
    task,             \* the kwargs of each submitted task
    pc,               \* where each task is: queued / in a worker / terminal
    retries,          \* self.request.retries of each task
    ended,            \* how the latest delivery of each task ended
    now,              \* int(time.time() // window)
    win,              \* per task: the window of the rate key it last computed
    rl,               \* Redis: arx:rl:<persona>:<window> counters (0 = no key)
    rlexp,            \* Redis: window in which EXPIRE was applied (-1 = no TTL)
    idemp,            \* Redis: arx:idemp:<digest> -> absent / running / done
    FLOW_STARTED,     \* ar_flow_started_total, per key
    FLOW_SUCCESS,     \* ar_flow_success_total, per key
    FLOW_FAIL,        \* ar_flow_fail_total, per key
    STEP_RETRIES,     \* ar_step_retries_total, per key
    \* history variables of Part I
    bodyRuns,         \* per task: number of executions of the step body
    bodyFails,        \* per task: number of body executions that raised
    passes,           \* per (persona, window): deliveries that passed _rate_limited
    claimed,          \* per key: the task whose delivery won SET NX ("" = none)
    \* ---- Part II: flow runner ----
    flow,             \* flow_def: the flow of the registry being run
    known,            \* flow_id in self.flows
    dry_run,          \* execute_flow(dry_run=...)
    fpc,              \* position of execute_flow
    execution_order,  \* list(nx.topological_sort(dag))
    idx,              \* position of the for loop in execution_order
    attempt,          \* _execute_node: attempt
    results,          \* _execute_dag: results (status "absent" = no entry)
    step_retries,     \* ar_step_retries_total, per node
    step_latency,     \* ar_step_latency_ms: number of observations, per node
    flow_started_total, \* ar_flow_started_total of the runner's process
    flow_success_total, \* ar_flow_success_total of the runner's process
    flow_fail_total,  \* ar_flow_fail_total of the runner's process
    \* history variables of Part II
    hist,             \* per node: did each body attempt meet the success condition
    all_timed_out,    \* _execute_node: every attempt so far hit TimeoutExpired
                      \* (kept until _execute_dag has looked at the result)
    envelope,         \* _execute_node: provenance.validation_status of the
                      \* envelope on the result it returned (kept until
                      \* _execute_dag goes on)
    guard_log,        \* _execute_flow_guards: the guards looked at, in order,
                      \* each with what became of it
    \* ---- Part III: the command line (cli/ar_flow.py) ----
    AR_ENABLE_FLOW_ENGINE, \* os.getenv("AR_ENABLE_FLOW_ENGINE", "0") == "1"
    live,             \* args.live of `flow run`
    cli,              \* position of main / cmd_run
    exit_code,        \* argument of sys.exit (-1 while running)
    \* ---- Part IV: the flow linter (tools/flow/flow_linter.py) ----
    registry,         \* registry["flows"]: the flow definitions, in file order
    lint_pc,          \* position of validate_flow_registry
    lint_results,     \* results: one ValidationResult per flow validated so far
    \* ---- Part V: metric labels (observability/collector.py) ----
    raw,              \* the value a collector function is given for a label
    label_pc,         \* position of the collector function
    label,            \* the label value on the emitted sample
    relabel,          \* _san applied to the emitted label value
    \* ---- Part VI: the collector helpers (observability/collector.py) ----
    metrics,          \* the samples of the registry, one total per metric
    timer_pc,         \* position of a `with step_timer(...)` statement
    wrapped,          \* history: the code wrapped by step_timer
    calls,            \* number of helper calls made so far
    \* ---- Part VII: the metrics assertion gate (scripts/assert_metrics.py) ----
    scraped,          \* the samples of the scraped /metrics text, in file order
    gate_pc,          \* position of the script
    gate_exit,        \* argument of sys.exit (0 = ran to its last line)
    \* ---- Part VIII: the scheduler (tools/planning/priority_scheduler.py) ----
    algorithm,        \* self.algorithm
    steps,            \* the steps of the input tasks, flattened in input order
    pending,          \* scheduled_tasks / remaining: steps not yet scheduled
    scheduled,        \* scheduled: the list being returned
    processed,        \* processed: descriptions of the scheduled steps
    current_time,     \* current_time, in minutes after start_time
    sched_pc,         \* position of schedule_tasks
    \* ---- Part IX: idempotency keys (exec_queue/tasks.py) ----
    submissions,      \* two step tasks: flow_id, task_id, step_id, payload
    idem_keys,        \* the key execute_step derives for each of them
    key_pc            \* position of the derivation

qvars == <<ALLOW_WRITES, AR_ENABLE_METRICS, task, pc, retries, ended, now, win, rl, rlexp,
           idemp, FLOW_STARTED, FLOW_SUCCESS, FLOW_FAIL, STEP_RETRIES,
           bodyRuns, bodyFails, passes, claimed>>

cvars == <<AR_ENABLE_FLOW_ENGINE, live, cli, exit_code>>

fvars == <<flow, known, dry_run, fpc, execution_order, idx, attempt, results,
           step_retries, step_latency, flow_started_total, flow_success_total,
           flow_fail_total, hist, all_timed_out, envelope, guard_log, cvars>>

lvars == <<registry, lint_pc, lint_results>>

svars == <<raw, label_pc, label, relabel>>

mvars == <<metrics, timer_pc, wrapped, calls>>

\* the variables of Parts VI and later
gvars == <<scraped, gate_pc, gate_exit>>

psvars == <<algorithm, steps, pending, scheduled, processed, current_time, sched_pc>>

kvars == <<submissions, idem_keys, key_pc>>

xvars == <<mvars, gvars, psvars, kvars>>

pvars == <<lvars, svars, xvars>>

vars == <<qvars, fvars, pvars>>

Terminal == {"SUCCESS", "IGNORED", "FAILURE", "RETRY"}

TaskKwargs == [key : Keys, persona : Personas, exec_mode : ExecModes,
               allow_destructive : BOOLEAN]

(***************************************************************************)
(* Part I - helpers                                                        *)
(***************************************************************************)

\* metrics_enabled(): every collector helper is a no-op unless this holds
metrics_enabled_Always == TRUE

metrics_enabled == AR_ENABLE_METRICS

\* Counter.labels(...).inc() behind the metrics_enabled() guard
Inc(counter, k) ==
    IF metrics_enabled THEN [counter EXCEPT ![k] = @ + 1] ELSE counter

\* mutant of RateLimited: off by one (v > n + 1)
RateLimited_OffByOne(persona, v) == v > RATE_LIMITS[persona] + 1

\* _rate_limited: the verdict on the value v returned by INCR
RateLimited(persona, v) == v > RATE_LIMITS[persona]

\* mutant of SetNX: a key that already holds "done" is claimed again
SetNX_OnlyWhileRunning(k) == idemp[k] # "running"

\* mutant of SetNX: the key is written whether or not it exists
SetNX_Always(k) == TRUE

\* r.set(key, "running", nx=True, ex=...): truthy iff the key was absent
SetNX(k) == idemp[k] = "absent"

\* _assert_writes_ok and the allow_destructive double guard: TRUE iff a
\* PermissionError is raised
WritesDenied(exec_mode, allow_destructive) ==
    \/ exec_mode = "live" /\ ~ALLOW_WRITES
    \/ ~allow_destructive /\ exec_mode = "live"

\* Task.retry as called by self.retry(...) and by autoretry_for: the message
\* is re-sent with retries+1 unless retries+1 > max_retries, in which case the
\* exception is raised instead and nothing is re-sent.  `final` is the task
\* state the raised exception leaves behind.
CanRetry(t) == retries[t] + 1 <= MAX_RETRIES

Resend(t, how, final) ==
    /\ ended' = [ended EXCEPT ![t] = how]
    /\ IF CanRetry(t)
         THEN /\ retries' = [retries EXCEPT ![t] = @ + 1]
              /\ pc' = [pc EXCEPT ![t] = "queued"]
         ELSE /\ retries' = retries
              /\ pc' = [pc EXCEPT ![t] = final]

(***************************************************************************)
(* Part I - initial state: tasks submitted by apply_async, Redis empty     *)
(***************************************************************************)
QInit ==
    /\ ALLOW_WRITES \in BOOLEAN
    /\ AR_ENABLE_METRICS = TRUE       \* the run is observed: AR_ENABLE_METRICS=1
    /\ task \in [Tasks -> TaskKwargs]
    /\ task["t1"].key = "k1"          \* up to renaming of the keys
    /\ pc = [t \in Tasks |-> "queued"]
    /\ retries = [t \in Tasks |-> 0]
    /\ ended = [t \in Tasks |-> "none"]
    /\ now = 0
    /\ win = [t \in Tasks |-> 0]
    /\ rl = [p \in Personas |-> [w \in Windows |-> 0]]
    /\ rlexp = [p \in Personas |-> [w \in Windows |-> -1]]
    /\ idemp = [k \in Keys |-> "absent"]
    /\ FLOW_STARTED = [k \in Keys |-> 0]
    /\ FLOW_SUCCESS = [k \in Keys |-> 0]
    /\ FLOW_FAIL = [k \in Keys |-> 0]
    /\ STEP_RETRIES = [k \in Keys |-> 0]
    /\ bodyRuns = [t \in Tasks |-> 0]
    /\ bodyFails = [t \in Tasks |-> 0]
    /\ passes = [p \in Personas |-> [w \in Windows |-> 0]]
    /\ claimed = [k \in Keys |-> ""]

(***************************************************************************)
(* Part I - actions                                                        *)
(***************************************************************************)

\* the wall clock enters the next fixed window
Tick ==
    /\ now < MaxWindow
    /\ now' = now + 1
    /\ UNCHANGED <<ALLOW_WRITES, AR_ENABLE_METRICS, task, pc, retries, ended, win, rl, rlexp,
                   idemp, FLOW_STARTED, FLOW_SUCCESS, FLOW_FAIL, STEP_RETRIES,
                   bodyRuns, bodyFails, passes, claimed>>

\* Redis drops a rate key whose TTL (one window, counted from the EXPIRE)
\* has run out
RateKeyExpires(p, w) ==
    /\ rl[p][w] > 0
    /\ rlexp[p][w] >= 0
    /\ now > rlexp[p][w]
    /\ rl' = [rl EXCEPT ![p][w] = 0]
    /\ rlexp' = [rlexp EXCEPT ![p][w] = -1]
    /\ UNCHANGED <<ALLOW_WRITES, AR_ENABLE_METRICS, task, pc, retries, ended, now, win,
                   idemp, FLOW_STARTED, FLOW_SUCCESS, FLOW_FAIL, STEP_RETRIES,
                   bodyRuns, bodyFails, passes, claimed>>

\* the verdict of _rate_limited for task t, given the INCR result v:
\* over the limit -> self.retry(countdown=5, exc=Retry(...)), else go on
RateVerdict(t, v) ==
    LET p == task[t].persona IN
    IF RateLimited(p, v)
      THEN /\ Resend(t, "Retry", "RETRY")
           /\ passes' = passes
      ELSE /\ pc' = [pc EXCEPT ![t] = "claim"]
           /\ passes' = [passes EXCEPT ![p][win'[t]] = @ + 1]
           /\ UNCHANGED <<retries, ended>>

\* a worker receives the message and runs _rate_limited up to the INCR
RateIncr(t) ==
    /\ pc[t] = "queued"
    /\ LET p == task[t].persona
           v == rl[p][now] + 1
       IN /\ win' = [win EXCEPT ![t] = now]
          /\ rl' = [rl EXCEPT ![p][now] = v]
          /\ IF v = 1
               THEN /\ pc' = [pc EXCEPT ![t] = "expire"]
                    /\ UNCHANGED <<retries, ended, passes>>
               ELSE RateVerdict(t, v)
    /\ UNCHANGED <<ALLOW_WRITES, AR_ENABLE_METRICS, task, now, rlexp,
                   idemp, FLOW_STARTED, FLOW_SUCCESS, FLOW_FAIL, STEP_RETRIES,
                   bodyRuns, bodyFails, claimed>>

\* the worker that saw v == 1 sends EXPIRE key window, then returns v > n
RateExpire(t) ==
    /\ pc[t] = "expire"
    /\ LET p == task[t].persona
           w == win[t]
       IN /\ rlexp' = [rlexp EXCEPT ![p][w] = IF rl[p][w] > 0 THEN now ELSE @]
          /\ win' = win
          /\ RateVerdict(t, 1)
    /\ UNCHANGED <<ALLOW_WRITES, AR_ENABLE_METRICS, task, now, rl,
                   idemp, FLOW_STARTED, FLOW_SUCCESS, FLOW_FAIL, STEP_RETRIES,
                   bodyRuns, bodyFails, claimed>>

\* SET NX on the idempotency key, then the write guards, then flow_start:
\*   key present       -> update_state(IGNORED, duplicate); raise Ignore()
\*   guard denies      -> PermissionError, handed to autoretry_for
\*   otherwise         -> instr.flow_start(...) and the body begins
Claim(t) ==
    /\ pc[t] = "claim"
    /\ LET k == task[t].key IN
       IF ~SetNX(k)
         THEN /\ pc' = [pc EXCEPT ![t] = "IGNORED"]
              /\ ended' = [ended EXCEPT ![t] = "Ignore"]
              /\ UNCHANGED <<retries, idemp, claimed, FLOW_STARTED>>
         ELSE /\ idemp' = [idemp EXCEPT ![k] = "running"]
              /\ claimed' = [claimed EXCEPT ![k] = t]
              /\ IF WritesDenied(task[t].exec_mode, task[t].allow_destructive)
                   THEN /\ Resend(t, "PermissionError", "FAILURE")
                        /\ UNCHANGED FLOW_STARTED
                   ELSE /\ FLOW_STARTED' = Inc(FLOW_STARTED, k)
                        /\ pc' = [pc EXCEPT ![t] = "body"]
                        /\ UNCHANGED <<retries, ended>>
    /\ UNCHANGED <<ALLOW_WRITES, AR_ENABLE_METRICS, task, now, win, rl, rlexp,
                   FLOW_SUCCESS, FLOW_FAIL, STEP_RETRIES,
                   bodyRuns, bodyFails, passes>>

\* the finally clause: r.set(key, "done", ex=86400)
MarkDone(k) == [idemp EXCEPT ![k] = "done"]

\* the step body returns: flow_end(success=True), finally, return
BodyOk(t) ==
    /\ pc[t] = "body"
    /\ LET k == task[t].key IN
       /\ FLOW_SUCCESS' = Inc(FLOW_SUCCESS, k)
       /\ idemp' = MarkDone(k)
    /\ bodyRuns' = [bodyRuns EXCEPT ![t] = @ + 1]
    /\ pc' = [pc EXCEPT ![t] = "SUCCESS"]
    /\ ended' = [ended EXCEPT ![t] = "ok"]
    /\ UNCHANGED <<ALLOW_WRITES, AR_ENABLE_METRICS, task, retries, now, win, rl, rlexp,
                   FLOW_STARTED, FLOW_FAIL, STEP_RETRIES,
                   bodyFails, passes, claimed>>

\* the step body raises: instr.retry, flow_end(success=False), finally,
\* re-raise for autoretry_for
BodyRaise(t) ==
    /\ pc[t] = "body"
    /\ LET k == task[t].key IN
       /\ STEP_RETRIES' = Inc(STEP_RETRIES, k)
       /\ FLOW_FAIL' = Inc(FLOW_FAIL, k)
       /\ idemp' = MarkDone(k)
    /\ bodyRuns' = [bodyRuns EXCEPT ![t] = @ + 1]
    /\ bodyFails' = [bodyFails EXCEPT ![t] = @ + 1]
    /\ Resend(t, "RuntimeError", "FAILURE")
    /\ UNCHANGED <<ALLOW_WRITES, AR_ENABLE_METRICS, task, now, win, rl, rlexp,
                   FLOW_STARTED, FLOW_SUCCESS,
                   passes, claimed>>

QNext ==
    \/ Tick /\ UNCHANGED <<fvars, pvars>>
    \/ \E p \in Personas, w \in Windows : RateKeyExpires(p, w) /\ UNCHANGED <<fvars, pvars>>
    \/ \E t \in Tasks : RateIncr(t) /\ UNCHANGED <<fvars, pvars>>
    \/ \E t \in Tasks : RateExpire(t) /\ UNCHANGED <<fvars, pvars>>
    \/ \E t \in Tasks : Claim(t) /\ UNCHANGED <<fvars, pvars>>
    \/ \E t \in Tasks : BodyOk(t) /\ UNCHANGED <<fvars, pvars>>
    \/ \E t \in Tasks : BodyRaise(t) /\ UNCHANGED <<fvars, pvars>>

(***************************************************************************)
(* Part II - the flow runner                                               *)
(***************************************************************************)
Nodes == {"n1", "n2", "n3"}

\* the pairs an edge of a modelled flow may join: every DAG on three nodes
\* is one of these up to renaming of the nodes
EdgePairs == {<<"n1", "n2">>, <<"n1", "n3">>, <<"n2", "n3">>}

\* what a pair carries: no edge; an edge without `when`; an edge whose
\* `when` is "n2.success".  With the pairs above that one condition names
\* the edge's own source (n2 -> n3), a node that is no predecessor of the
\* target and may come before or after it (n1 -> n3), and the target
\* itself, which never has a result when the edge is looked at (n1 -> n2)
EdgeKinds == {"no_edge", "no_when", "n2"}

\* node_def.get("success_condition") of the modelled flows
SuccessConditions == {"none", "exit_code == 1"}

\* flow_def["config"].get("fail_fast"), "omitted" when config has none
FailFastConfigs == {"omitted", "true", "false"}

\* guard names a flow may list: the guard decided by ALLOW_WRITES, a guard
\* whose verdict depends on the working tree, and a name that is no key of
\* guard_functions
GuardNames == {"dry_run_unless_allowed", "git_clean", "not_registered"}

\* _load_guard_functions: the registered ones among GuardNames
GuardFunctions == {"dry_run_unless_allowed", "git_clean"}

\* flow_def.get("guards", []) of the modelled flows
GuardLists == UNION {[1..k -> GuardNames] : k \in 0..MaxGuards}

\* the modelled flows handed to execute_flow directly: every lint-valid flow
\* over Nodes with these edges, retries and fail_fast settings, guarded by
\* git_clean; all nodes of a flow share one success_condition
Flows == [nodes : {Nodes},
          edges : [EdgePairs -> EdgeKinds],
          retries : [Nodes -> 0..MaxNodeRetries],
          success_condition : {[n \in Nodes |-> sc] : sc \in SuccessConditions},
          fail_fast : FailFastConfigs,
          guards : {<<"git_clean">>}]

NoEdges == [e \in EdgePairs |-> "no_edge"]

\* n1 -> n2 -> n3
Chain == [e \in EdgePairs |-> IF e = <<"n1", "n3">> THEN "no_edge" ELSE "no_when"]

\* the registry `flow run` is pointed at: flows over Nodes without edges or
\* as a chain, and the flow with `nodes: {}`, each under every guard list
RegistryFlows ==
    [nodes : {Nodes},
     edges : {NoEdges, Chain},
     retries : {[n \in Nodes |-> 0]},
     success_condition : {[n \in Nodes |-> sc] : sc \in SuccessConditions},
     fail_fast : FailFastConfigs,
     guards : GuardLists]
    \cup
    [nodes : {{}},
     edges : {NoEdges},
     retries : {[n \in Nodes |-> 0]},
     success_condition : {[n \in Nodes |-> "none"]},
     fail_fast : {"omitted"},
     guards : GuardLists]

\* what one run of _execute_node_once can produce: the fabricated dry-run
\* result, a finished subprocess (exit code, whether stdout holds the
\* literal of a contains(...) condition), TimeoutExpired, or an exception
Outcomes(dry) ==
    IF dry
      THEN {[kind |-> "exit", exit_code |-> 0, has |-> FALSE], [kind |-> "raise"]}
      ELSE [kind : {"exit"}, exit_code : {0, 1}, has : BOOLEAN]
             \cup {[kind |-> "timeout"], [kind |-> "raise"]}

NoResult == [status |-> "absent", attempts |-> 0]

\* dag.predecessors(node_id)
Predecessors(f, n) == {p \in Nodes : <<p, n>> \in EdgePairs /\ f.edges[<<p, n>>] # "no_edge"}

\* the orders nx.topological_sort may return: every permutation of the
\* nodes in which each edge goes forward
Perms(S) == {o \in [1..Cardinality(S) -> S] : \A i, j \in DOMAIN o : i # j => o[i] # o[j]}

TopologicalOrders(f) ==
    {o \in Perms(f.nodes) : \A i, j \in DOMAIN o : o[i] \in Predecessors(f, o[j]) => i < j}

\* mutant of FailFast: the default of a missing fail_fast is False
FailFast_DefaultFalse(f) == f.fail_fast = "true"

\* flow_def.get("config", {}).get("fail_fast", True)
FailFast(f) == f.fail_fast # "false"

\* mutant of EvaluateCondition: a condition on a node without result is false
EvaluateCondition_AbsentIsFalse(condition, res) ==
    condition \in Nodes => res[condition].status = "success"

\* mutant of EvaluateCondition: every condition evaluates true
EvaluateCondition_AlwaysTrue(condition, res) == TRUE

\* _evaluate_condition: "<X>.success" is the status of X when X has a
\* result; anything else (no `when`, X without result) is true
EvaluateCondition(condition, res) ==
    IF condition \in Nodes /\ res[condition].status # "absent"
      THEN res[condition].status = "success"
      ELSE TRUE

\* mutant of CheckPredecessorSuccess: predecessors are not looked at
CheckPredecessorSuccess_AlwaysTrue(f, n, res) == TRUE

\* _check_predecessor_success
CheckPredecessorSuccess(f, n, res) ==
    \A p \in Predecessors(f, n) :
        res[p].status # "absent" =>
            /\ res[p].status = "success"
            /\ EvaluateCondition(f.edges[<<p, n>>], res)

\* _check_success_condition on the result of one attempt (exit_code is None
\* and stdout empty after a timeout)
CheckSuccessCondition(o, sc) ==
    IF o.kind = "timeout" THEN FALSE
    ELSE IF sc = "none" THEN o.exit_code = 0
    ELSE IF sc = "exit_code == 0" THEN o.exit_code = 0
    ELSE IF sc = "exit_code == 1" THEN o.exit_code = 1
    ELSE IF sc = "contains" THEN o.has
    ELSE o.exit_code = 0

\* the status _execute_node_once gives its result, before _execute_node
\* applies the success condition
OnceStatus(o) ==
    IF o.kind = "timeout" THEN "timeout"
    ELSE IF o.exit_code = 0 THEN "success" ELSE "failed"

\* no result with an envelope was returned
NoEnvelope == [node |-> "", validation_status |-> "none"]

\* _generate_action_envelope_v2 (provenance.validation_status), called at the
\* end of _execute_node_once; an attempt that raised has no envelope
GenerateActionEnvelopeV2(n, o) ==
    IF o.kind = "raise" THEN NoEnvelope
    ELSE [node |-> n,
          validation_status |-> IF OnceStatus(o) = "success" THEN "completed" ELSE "failed"]

\* mutant of MayRetry: one retry too few
MayRetry_OneLess(att, max_retries) == att < max_retries

\* mutant of MayRetry: one retry too many
MayRetry_OneMore(att, max_retries) == att <= max_retries + 1

\* _execute_node: `if attempt <= max_retries` (retry) `else: break`
MayRetry(att, max_retries) == att <= max_retries

\* _guard_dry_run_unless_allowed
GuardDryRunUnlessAllowed(is_dry_run, allow_writes) == ~(~is_dry_run /\ ~allow_writes)

\* what a guard function that inspects the working tree can do
GuardOutcomes == {"true", "false", "raise"}

\* one state of the working tree: what git_clean does at each position of
\* the guard list
GuardRuns == [1..MaxGuards -> GuardOutcomes]

\* _execute_flow_guards, the loop body for the i-th listed guard
GuardOutcome(f, i, gr, is_dry_run, allow_writes) ==
    IF f.guards[i] \notin GuardFunctions THEN "unknown"
    ELSE IF f.guards[i] = "dry_run_unless_allowed"
      THEN IF GuardDryRunUnlessAllowed(is_dry_run, allow_writes) THEN "true" ELSE "false"
    ELSE gr[i]

\* position of the guard at which _execute_flow_guards returns False (0: none)
FirstFailingGuard(f, gr, is_dry_run, allow_writes) ==
    LET bad == {i \in 1..Len(f.guards) :
                    GuardOutcome(f, i, gr, is_dry_run, allow_writes) # "true"}
    IN IF bad = {} THEN 0 ELSE CHOOSE i \in bad : \A j \in bad : i <= j

\* mutant of ExecuteFlowGuards: the verdict of the guards is ignored
ExecuteFlowGuards_AlwaysTrue(f, gr, is_dry_run, allow_writes) == TRUE

\* _execute_flow_guards: its return value
ExecuteFlowGuards(f, gr, is_dry_run, allow_writes) ==
    FirstFailingGuard(f, gr, is_dry_run, allow_writes) = 0

\* the guards _execute_flow_guards looks at before it returns
GuardLog(f, gr, is_dry_run, allow_writes) ==
    LET k == FirstFailingGuard(f, gr, is_dry_run, allow_writes)
        last == IF k = 0 THEN Len(f.guards) ELSE k
    IN [i \in 1..last |-> [name |-> f.guards[i],
                           outcome |-> GuardOutcome(f, i, gr, is_dry_run, allow_writes)]]

\* mutant of IncTotal: the counter is never incremented
IncTotal_None(c) == c

\* flow_start / flow_end: Counter.inc() behind the metrics_enabled() guard
IncTotal(c) == IF metrics_enabled THEN c + 1 ELSE c

\* mutant of StepTimer: the timer takes no sample
StepTimer_NoSample(lat, n) == lat

\* step_timer: one observe() in its finally clause when metrics are enabled
StepTimer(lat, n) == IF metrics_enabled THEN [lat EXCEPT ![n] = @ + 1] ELSE lat

\* mutant of FailedNodes: no result counts as failed
FailedNodes_None(res) == 0

\* _generate_execution_summary: failed_nodes
FailedNodes(res) == Cardinality({n \in Nodes : res[n].status = "failed"})

\* _generate_execution_summary: the counts of the summary
GenerateExecutionSummary(res) ==
    [total_nodes |-> Cardinality({n \in Nodes : res[n].status # "absent"}),
     successful_nodes |-> Cardinality({n \in Nodes : res[n].status = "success"}),
     failed_nodes |-> FailedNodes(res)]

QIdle ==
    /\ task = [t \in Tasks |-> [key |-> "k1", persona |-> "PO_AI",
                                exec_mode |-> "dry_run", allow_destructive |-> FALSE]]
    /\ pc = [t \in Tasks |-> "SUCCESS"]
    /\ retries = [t \in Tasks |-> 0]
    /\ ended = [t \in Tasks |-> "none"]
    /\ now = 0
    /\ win = [t \in Tasks |-> 0]
    /\ rl = [p \in Personas |-> [w \in Windows |-> 0]]
    /\ rlexp = [p \in Personas |-> [w \in Windows |-> -1]]
    /\ idemp = [k \in Keys |-> "absent"]
    /\ FLOW_STARTED = [k \in Keys |-> 0]
    /\ FLOW_SUCCESS = [k \in Keys |-> 0]
    /\ FLOW_FAIL = [k \in Keys |-> 0]
    /\ STEP_RETRIES = [k \in Keys |-> 0]
    /\ bodyRuns = [t \in Tasks |-> 0]
    /\ bodyFails = [t \in Tasks |-> 0]
    /\ passes = [p \in Personas |-> [w \in Windows |-> 0]]
    /\ claimed = [k \in Keys |-> ""]

\* no command line in front of the runner
CIdle ==
    /\ AR_ENABLE_FLOW_ENGINE = FALSE
    /\ live = FALSE
    /\ cli = "off"
    /\ exit_code = -1

\* no lint in progress
LIdle ==
    /\ registry = <<>>
    /\ lint_pc = "off"
    /\ lint_results = <<>>

\* no metric being emitted
SIdle ==
    /\ raw = <<>>
    /\ label_pc = "off"
    /\ label = <<>>
    /\ relabel = <<>>

NoSamples ==
    [flow_started |-> 0, flow_success |-> 0, flow_fail |-> 0, step_latency |-> 0,
     step_retries |-> 0, tokens |-> 0, inflight |-> 0]

\* no collector helper called
MIdle ==
    /\ metrics = NoSamples
    /\ timer_pc = "off"
    /\ wrapped = [ran |-> 0, raised |-> 0, propagated |-> 0]
    /\ calls = 0

\* Parts VI and later at rest
\* no metrics gate running
GIdle ==
    /\ scraped = [started |-> <<>>, success |-> <<>>, latency |-> <<>>]
    /\ gate_pc = "off"
    /\ gate_exit = -1

\* no scheduler running
PSIdle ==
    /\ algorithm = "PRIORITY_FIRST"
    /\ steps = <<>>
    /\ pending = <<>>
    /\ scheduled = <<>>
    /\ processed = {}
    /\ current_time = 0
    /\ sched_pc = "off"

\* no key being derived
KIdle ==
    /\ submissions = <<>>
    /\ idem_keys = <<>>
    /\ key_pc = "off"

XIdle ==
    /\ MIdle
    /\ GIdle
    /\ PSIdle
    /\ KIdle

\* the variables of a run of execute_flow before it starts
FFresh ==
    /\ execution_order = <<>>
    /\ idx = 0
    /\ attempt = 0
    /\ results = [n \in Nodes |-> NoResult]
    /\ step_retries = [n \in Nodes |-> 0]
    /\ step_latency = [n \in Nodes |-> 0]
    /\ flow_started_total = 0
    /\ flow_success_total = 0
    /\ flow_fail_total = 0
    /\ hist = [n \in Nodes |-> <<>>]
    /\ all_timed_out = FALSE
    /\ envelope = NoEnvelope
    /\ guard_log = <<>>

\* the flow variables when execute_flow is entered
FStart ==
    /\ fpc = "init"
    /\ FFresh

FIdle ==
    /\ flow = [nodes |-> Nodes,
               edges |-> NoEdges,
               retries |-> [n \in Nodes |-> 0],
               success_condition |-> [n \in Nodes |-> "none"],
               fail_fast |-> "omitted",
               guards |-> <<>>]
    /\ known = TRUE
    /\ dry_run = TRUE
    /\ FStart
    /\ CIdle

\* a FlowRunner holding a lint-valid flow, about to run execute_flow
FInit ==
    /\ AR_ENABLE_METRICS = TRUE       \* the run is observed: AR_ENABLE_METRICS=1
    /\ ALLOW_WRITES = FALSE
    /\ QIdle
    /\ flow \in Flows
    /\ known = TRUE
    /\ dry_run \in BOOLEAN
    /\ FStart
    /\ LIdle
    /\ SIdle
    /\ XIdle
    /\ CIdle

\* the inputs of execute_flow and the variables of its run other than fpc
finputs == <<flow, known>>

frun == <<execution_order, idx, attempt, results, step_retries, step_latency,
          flow_started_total, flow_success_total, flow_fail_total, hist,
          all_timed_out, envelope, guard_log>>

\* execute_flow up to the loop of _execute_dag: an unknown flow id raises;
\* otherwise flow_start, then _execute_flow_guards in the working tree gr: a
\* denial raises after flow_end(success=False), else the DAG is built and
\* sorted
EnterFlow(gr) ==
    /\ fpc = "init"
    /\ IF ~known
         THEN /\ fpc' = "raised"
              /\ UNCHANGED <<execution_order, idx, flow_started_total, flow_fail_total,
                             guard_log>>
         ELSE /\ flow_started_total' = IncTotal(flow_started_total)
              /\ guard_log' = GuardLog(flow, gr, dry_run, ALLOW_WRITES)
              /\ IF ExecuteFlowGuards(flow, gr, dry_run, ALLOW_WRITES)
                   THEN /\ fpc' = "loop"
                        /\ execution_order' \in TopologicalOrders(flow)
                        /\ idx' = 1
                        /\ UNCHANGED flow_fail_total
                   ELSE /\ fpc' = "raised"
                        /\ flow_fail_total' = IncTotal(flow_fail_total)
                        /\ UNCHANGED <<execution_order, idx>>
    /\ UNCHANGED <<finputs, dry_run, attempt, results, step_retries, step_latency,
                   flow_success_total, hist, all_timed_out, envelope>>

\* _execute_dag: the node at the head of the loop is skipped
SkipNode ==
    /\ fpc = "loop"
    /\ idx <= Len(execution_order)
    /\ LET n == execution_order[idx] IN
       /\ ~CheckPredecessorSuccess(flow, n, results)
       /\ results' = [results EXCEPT ![n] = [status |-> "skipped", attempts |-> 1]]
    /\ idx' = idx + 1
    /\ all_timed_out' = FALSE
    /\ envelope' = NoEnvelope
    /\ UNCHANGED <<finputs, dry_run, fpc, execution_order, attempt, step_retries,
                   step_latency, flow_started_total, flow_success_total,
                   flow_fail_total, hist, guard_log>>

\* _execute_dag: the node at the head of the loop enters _execute_node
BeginNode ==
    /\ fpc = "loop"
    /\ idx <= Len(execution_order)
    /\ CheckPredecessorSuccess(flow, execution_order[idx], results)
    /\ attempt' = 1
    /\ all_timed_out' = TRUE
    /\ envelope' = NoEnvelope
    /\ fpc' = "attempt"
    /\ UNCHANGED <<finputs, dry_run, execution_order, idx, results, step_retries,
                   step_latency, flow_started_total, flow_success_total,
                   flow_fail_total, hist, guard_log>>

\* _execute_dag after _execute_node returned `res` for node n: record it,
\* then break on fail-fast or move on
Record(n, res) ==
    /\ results' = [results EXCEPT ![n] = res]
    /\ IF res.status = "failed" /\ FailFast(flow)
         THEN fpc' = "summary" /\ idx' = idx
         ELSE fpc' = "loop" /\ idx' = idx + 1

\* _execute_node: one iteration of the while loop, i.e. one attempt o of
\* _execute_node_once (timed by instr.step, an exception being one raised
\* by the command's subprocess.run) followed by the success check and the
\* retry decision
Attempt(o) ==
    /\ fpc = "attempt"
    /\ LET n == execution_order[idx]
           good == o.kind # "raise" /\ CheckSuccessCondition(o, flow.success_condition[n])
       IN /\ hist' = [hist EXCEPT ![n] = Append(@, good)]
          /\ step_latency' = StepTimer(step_latency, n)
          /\ all_timed_out' = (all_timed_out /\ o.kind = "timeout")
          /\ envelope' = IF good \/ ~MayRetry(attempt, flow.retries[n])
                            THEN GenerateActionEnvelopeV2(n, o)
                            ELSE NoEnvelope
          /\ IF good
               THEN /\ Record(n, [status |-> "success", attempts |-> attempt])
                    /\ UNCHANGED <<attempt, step_retries>>
               ELSE IF MayRetry(attempt, flow.retries[n])
                 THEN /\ step_retries' = IF metrics_enabled
                                           THEN [step_retries EXCEPT ![n] = @ + 1]
                                           ELSE step_retries
                      /\ attempt' = attempt + 1
                      /\ UNCHANGED <<fpc, idx, results>>
                 ELSE /\ Record(n, [status |-> "failed", attempts |-> attempt])
                      /\ UNCHANGED <<attempt, step_retries>>
    /\ UNCHANGED <<finputs, dry_run, execution_order, flow_started_total,
                   flow_success_total, flow_fail_total, guard_log>>

\* _execute_dag returns (loop exhausted or fail-fast break); the summary is
\* generated, flow_end(success=True) is emitted and execute_flow returns
FlowReturn ==
    /\ \/ fpc = "summary"
       \/ fpc = "loop" /\ idx > Len(execution_order)
    /\ fpc' = "returned"
    /\ flow_success_total' = IncTotal(flow_success_total)
    /\ all_timed_out' = FALSE
    /\ envelope' = NoEnvelope
    /\ UNCHANGED <<finputs, dry_run, execution_order, idx, attempt, results, step_retries,
                   step_latency, flow_started_total, flow_fail_total, hist, guard_log>>

FNext ==
    \/ \E gr \in GuardRuns : EnterFlow(gr) /\ UNCHANGED <<qvars, cvars, pvars>>
    \/ SkipNode /\ UNCHANGED <<qvars, cvars, pvars>>
    \/ BeginNode /\ UNCHANGED <<qvars, cvars, pvars>>
    \/ \E o \in Outcomes(dry_run) : Attempt(o) /\ UNCHANGED <<qvars, cvars, pvars>>
    \/ FlowReturn /\ UNCHANGED <<qvars, cvars, pvars>>

\* the executor with tasks enqueued; no flow run in progress
QueueInit == QInit /\ FIdle /\ LIdle /\ SIdle /\ XIdle

QueueSpec == QueueInit /\ [][QNext]_vars

FlowSpec == FInit /\ [][FNext]_vars

\* the runner is one thread: a step that can be taken is taken
FlowFairSpec == FlowSpec /\ WF_vars(FNext)

(***************************************************************************)
(* Part III - the command line                                             *)
(***************************************************************************)

\* main and cmd_run of `flow run` up to the call of execute_flow: the
\* feature flag is checked, the registry is loaded (loaded = the file exists
\* and FlowRunner(...) reads it) and the mode is derived from --live
Main(loaded) ==
    /\ cli = "main"
    /\ IF ~AR_ENABLE_FLOW_ENGINE \/ ~loaded
         THEN /\ cli' = "exited"
              /\ exit_code' = 1
              /\ UNCHANGED <<dry_run, fpc>>
         ELSE /\ cli' = "execute_flow"
              /\ dry_run' = ~live          \* args.dry_run and not args.live
              /\ fpc' = "init"
              /\ UNCHANGED exit_code
    /\ UNCHANGED <<AR_ENABLE_FLOW_ENGINE, live, finputs, frun>>

\* cmd_run after execute_flow returned its summary or raised
CmdRunExit ==
    /\ cli = "execute_flow"
    /\ fpc \in {"returned", "raised"}
    /\ exit_code' = IF fpc = "returned" /\ GenerateExecutionSummary(results).failed_nodes = 0
                      THEN 0 ELSE 1
    /\ cli' = "exited"
    /\ UNCHANGED <<AR_ENABLE_FLOW_ENGINE, live, finputs, dry_run, fpc, frun>>

CliNext ==
    \/ \E loaded \in BOOLEAN : Main(loaded) /\ UNCHANGED <<qvars, pvars>>
    \/ FNext
    \/ CmdRunExit /\ UNCHANGED <<qvars, pvars>>

\* `flow run` started on a flow id of the registry or on an unknown one,
\* with or without --live, under every setting of the three variables
CliInit ==
    /\ AR_ENABLE_METRICS = TRUE
    /\ ALLOW_WRITES \in BOOLEAN
    /\ QIdle
    /\ AR_ENABLE_FLOW_ENGINE \in BOOLEAN
    /\ live \in BOOLEAN
    /\ cli = "main"
    /\ exit_code = -1
    /\ flow \in RegistryFlows
    /\ known \in BOOLEAN
    /\ dry_run = TRUE
    /\ fpc = "idle"
    /\ FFresh
    /\ LIdle
    /\ SIdle
    /\ XIdle

CliSpec == CliInit /\ [][CliNext]_vars

(***************************************************************************)
(* Part IV - the flow linter                                               *)
(***************************************************************************)
\* node ids a flow of the linted registry may declare
LintNodes == {"a", "b"}
\* a name that edges may use and no flow declares
Undeclared == "x"
\* longest `edges` list of a linted flow
MaxEdges == 2

\* an edge entry that is a mapping; "missing" = the field is not in the edge
EdgeEnds == LintNodes \cup {Undeclared}
EdgeEntries ==
    [from : EdgeEnds, to : EdgeEnds]
      \cup {[from |-> "a", to |-> "missing"], [from |-> "missing", to |-> "b"]}
EdgeLists == UNION {[1..k -> EdgeEntries] : k \in 0..MaxEdges}

\* the value under `nodes`: a mapping of node ids to well-formed node
\* definitions, a list (wrong shape; keys = its items), or no such field
NodesValues ==
    [shape : {"dict"}, keys : SUBSET LintNodes]
      \cup [shape : {"list"}, keys : {{}, {"a"}}]
      \cup {[shape |-> "absent", keys |-> {}]}
\* the value under `edges`: a list of mappings, null (wrong shape), or no
\* such field
EdgesValues ==
    [shape : {"list"}, items : EdgeLists]
      \cup [shape : {"null", "absent"}, items : {<<>>}]

\* flow definitions whose id, name, guards, config and node definitions
\* carry no finding
LintFlows == [nodes : NodesValues, edges : EdgesValues]

ChainFlow ==
    [nodes |-> [shape |-> "dict", keys |-> LintNodes],
     edges |-> [shape |-> "list", items |-> <<[from |-> "a", to |-> "b"]>>]]
\* the flows that follow the first one in the registry
OtherFlows ==
    {ChainFlow,
     [ChainFlow EXCEPT !.edges.items = <<[from |-> "a", to |-> "a"]>>],
     [ChainFlow EXCEPT !.nodes = [shape |-> "list", keys |-> {"a"}]]}

\* ValidationError(code=...), of edge i where the message names one (else 0)
Finding(code, i) == [code |-> code, edge |-> i]

ValidateNodes(nodes) ==
    IF nodes.shape # "dict" THEN {Finding("INVALID_NODES_TYPE", 0)} ELSE {}

\* set(nodes.keys()) if nodes else set(), for nodes = flow_def.get("nodes", {})
NodeIds(nodes) == IF nodes.shape = "dict" THEN nodes.keys ELSE {}

\* _validate_edges raises AttributeError on nodes.keys() when `nodes` is a
\* non-empty value that is not a mapping
ValidateEdgesRaises(edges, nodes) ==
    /\ edges.shape = "list"
    /\ nodes.shape = "list"
    /\ nodes.keys # {}

EdgeFindings(e, i, node_ids) ==
    {Finding("MISSING_EDGE_FIELD", i) : x \in {fld \in {e.from, e.to} : fld = "missing"}}
      \cup (IF e.from # "missing" /\ e.from \notin node_ids
              THEN {Finding("INVALID_EDGE_FROM", i)} ELSE {})
      \cup (IF e.to # "missing" /\ e.to \notin node_ids
              THEN {Finding("INVALID_EDGE_TO", i)} ELSE {})

ValidateEdges(edges, nodes) ==
    IF edges.shape # "list"
      THEN {Finding("INVALID_EDGES_TYPE", 0)}
      ELSE UNION {EdgeFindings(edges.items[i], i, NodeIds(nodes)) :
                    i \in 1..Len(edges.items)}

\* G of _validate_dag_structure: the declared nodes and the edges that have
\* both fields, whose endpoints add_edge adds as nodes
GraphEdges(edges) ==
    {<<edges.items[i].from, edges.items[i].to>> :
        i \in {j \in 1..Len(edges.items) :
                 edges.items[j].from # "missing" /\ edges.items[j].to # "missing"}}
GraphNodes(nodes, edges) ==
    nodes.keys \cup {e[1] : e \in GraphEdges(edges)} \cup {e[2] : e \in GraphEdges(edges)}

\* the nodes reached from `frontier` by one or more edges of E
RECURSIVE Reached(_, _, _)
Reached(E, frontier, seen) ==
    LET next == {e[2] : e \in {d \in E : d[1] \in frontier}} \ seen
    IN  IF next = {} THEN seen ELSE Reached(E, next, seen \cup next)

IsDirectedAcyclicGraph_True(V, E) == TRUE

\* nx.is_directed_acyclic_graph(G)
IsDirectedAcyclicGraph(V, E) == \A v \in V : v \notin Reached(E, {v}, {})

InDegree(E, v) == Cardinality({e \in E : e[2] = v})

ValidateDagStructure(nodes, edges) ==
    IF nodes.shape # "dict" \/ edges.shape # "list"
      THEN {Finding("DAG_VALIDATION_FAILED", 0)}     \* except Exception
      ELSE LET V == GraphNodes(nodes, edges)
               E == GraphEdges(edges)
           IN  IF IsDirectedAcyclicGraph(V, E)
                 THEN IF {v \in V : InDegree(E, v) = 0} = {}
                        THEN {Finding("NO_ROOT_NODES", 0)} ELSE {}
                 ELSE {Finding("CYCLIC_DEPENDENCY", 0)}

\* validate_single_flow: the ValidationResult, or the exception that leaves it
ValidateSingleFlow(flow_def) ==
    LET has_nodes == flow_def.nodes.shape # "absent"
        has_edges == flow_def.edges.shape # "absent"
        errors ==
          {Finding("MISSING_FLOW_FIELD", 0) : x \in {b \in {has_nodes, has_edges} : ~b}}
            \cup (IF has_nodes THEN ValidateNodes(flow_def.nodes) ELSE {})
            \cup (IF has_edges THEN ValidateEdges(flow_def.edges, flow_def.nodes) ELSE {})
            \cup (IF has_nodes /\ has_edges
                    THEN ValidateDagStructure(flow_def.nodes, flow_def.edges) ELSE {})
    IN  IF has_edges /\ ValidateEdgesRaises(flow_def.edges, flow_def.nodes)
          THEN [raised |-> TRUE, is_valid |-> FALSE, errors |-> {}]
          ELSE [raised |-> FALSE, is_valid |-> errors = {}, errors |-> errors]

\* validate_flow_registry, one turn of the loop over registry["flows"]: the
\* result is stored under the flow id, or the exception of
\* validate_single_flow leaves validate_flow_registry
ValidateFlow ==
    /\ lint_pc = "flows"
    /\ Len(lint_results) < Len(registry)
    /\ LET result == ValidateSingleFlow(registry[Len(lint_results) + 1])
       IN  IF result.raised
             THEN /\ lint_pc' = "raised"
                  /\ UNCHANGED lint_results
             ELSE /\ lint_results' = Append(lint_results, result)
                  /\ UNCHANGED lint_pc
    /\ UNCHANGED registry

\* validate_flow_registry: return results
LintReturn ==
    /\ lint_pc = "flows"
    /\ Len(lint_results) = Len(registry)
    /\ lint_pc' = "returned"
    /\ UNCHANGED <<registry, lint_results>>

LintNext ==
    \/ ValidateFlow /\ UNCHANGED <<qvars, fvars, svars, xvars>>
    \/ LintReturn /\ UNCHANGED <<qvars, fvars, svars, xvars>>

\* validate_flow_registry on a registry document with `version` and a `flows`
\* mapping of two flows, after the registry-level result was found valid
LintInit ==
    /\ AR_ENABLE_METRICS = FALSE
    /\ ALLOW_WRITES = FALSE
    /\ QIdle
    /\ FIdle
    /\ SIdle
    /\ XIdle
    /\ registry \in {<<f, g>> : f \in LintFlows, g \in OtherFlows}
    /\ lint_pc = "flows"
    /\ lint_results = <<>>

LintSpec == LintInit /\ [][LintNext]_vars

(***************************************************************************)
(* Part V - metric labels                                                  *)
(***************************************************************************)
\* MAXLEN = 64
MAXLEN == 64

\* strings are sequences of characters
Lower == {"a", "b", "c", "d", "e", "f", "g", "h", "i", "j", "k", "l", "m",
          "n", "o", "p", "q", "r", "s", "t", "u", "v", "w", "x", "y", "z"}
Upper == {"A", "B", "C", "D", "E", "F", "G", "H", "I", "J", "K", "L", "M",
          "N", "O", "P", "Q", "R", "S", "T", "U", "V", "W", "X", "Y", "Z"}
Digits == {"0", "1", "2", "3", "4", "5", "6", "7", "8", "9"}

\* the characters _ALLOWED = re.compile(r"[^a-zA-Z0-9_\-./]") does not match
NotMatchedByALLOWED == Lower \cup Upper \cup Digits \cup {"_", "-", ".", "/"}

Unknown == <<"u", "n", "k", "n", "o", "w", "n">>

\* characters of the values given as labels: kept ones and replaced ones
InputChars == {"a", "Z", "7", "_", "-", ".", "/", " ", "@", ":"}
\* lengths of the runs the input strings are made of, around MAXLEN
RunLengths == {0, 1, 2, MAXLEN - 1, MAXLEN, MAXLEN + 1}

Repeat(c, n) == [i \in 1..n |-> c]

\* the values the callers pass: None, strings, and integers
RawValues ==
    {[kind |-> "None"]}
      \cup {[kind |-> "str", val |-> Repeat(c, n) \o Repeat(d, m)] :
              c \in InputChars, d \in InputChars, n \in RunLengths, m \in RunLengths}
      \cup [kind : {"int"}, val : {-12, -1, 0, 7, 10, 305}]

DigitChar(d) ==
    CASE d = 0 -> "0" [] d = 1 -> "1" [] d = 2 -> "2" [] d = 3 -> "3" [] d = 4 -> "4"
      [] d = 5 -> "5" [] d = 6 -> "6" [] d = 7 -> "7" [] d = 8 -> "8" [] d = 9 -> "9"

RECURSIVE Decimal(_)
Decimal(n) == IF n < 10 THEN <<DigitChar(n)>> ELSE Append(Decimal(n \div 10), DigitChar(n % 10))

\* str(v) of a value that is not None
Str(v) ==
    IF v.kind = "str" THEN v.val
    ELSE IF v.val < 0 THEN <<"-">> \o Decimal(-v.val) ELSE Decimal(v.val)

\* _ALLOWED.sub("_", v)
Sub(v) == [i \in 1..Len(v) |-> IF v[i] \in NotMatchedByALLOWED THEN v[i] ELSE "_"]

\* v[:n]
Slice(v, n) == IF Len(v) <= n THEN v ELSE SubSeq(v, 1, n)

San_NoSlice(v) ==
    IF v.kind = "None" THEN Unknown
    ELSE IF Sub(Str(v)) = <<>> THEN Unknown ELSE Sub(Str(v))

\* _san
San(v) ==
    IF v.kind = "None" THEN Unknown
    ELSE LET w == Slice(Sub(Str(v)), MAXLEN)
         IN  IF w = <<>> THEN Unknown ELSE w

\* the collector functions and the metric each labels
CollectorFunctions == {"flow_start", "flow_end", "step_timer", "add_retry", "add_tokens"}

\* a collector function attaches a label value to a sample: .labels(_san(v))
Labels(fn) ==
    /\ label_pc = fn
    /\ label' = San(raw)
    /\ label_pc' = "emitted"
    /\ UNCHANGED <<raw, relabel>>

\* the emitted label value given to _san once more
SanAgain ==
    /\ label_pc = "emitted"
    /\ relabel' = San([kind |-> "str", val |-> label])
    /\ label_pc' = "done"
    /\ UNCHANGED <<raw, label>>

LabelNext ==
    \/ \E fn \in CollectorFunctions : Labels(fn) /\ UNCHANGED <<qvars, fvars, lvars, xvars>>
    \/ SanAgain /\ UNCHANGED <<qvars, fvars, lvars, xvars>>

\* a collector function called with metrics enabled and some value for a label
LabelInit ==
    /\ AR_ENABLE_METRICS = TRUE
    /\ ALLOW_WRITES = FALSE
    /\ QIdle
    /\ FIdle
    /\ LIdle
    /\ XIdle
    /\ raw \in RawValues
    /\ label_pc \in CollectorFunctions
    /\ label = <<>>
    /\ relabel = <<>>

LabelSpec == LabelInit /\ [][LabelNext]_vars

(***************************************************************************)
(* Part VI - the collector helpers                                         *)
(***************************************************************************)
\* number of helper calls a modelled process makes
MaxCalls == 3
\* largest n of add_tokens(direction, model, persona, n)
MaxTokens == 2

\* Counter.inc(n) / Gauge.inc() / Gauge.dec() / Histogram.observe() on the
\* metric `name`, behind `enabled`
Bump(m, name, n, enabled) == IF enabled THEN [m EXCEPT ![name] = @ + n] ELSE m

\* flow_start
FlowStart ==
    /\ timer_pc \in {"out", "body"}
    /\ calls < MaxCalls
    /\ calls' = calls + 1
    /\ metrics' = Bump(metrics, "flow_started", 1, metrics_enabled)
    /\ UNCHANGED <<timer_pc, wrapped>>

\* flow_end
FlowEnd(success) ==
    /\ timer_pc \in {"out", "body"}
    /\ calls < MaxCalls
    /\ calls' = calls + 1
    /\ metrics' = Bump(metrics, IF success THEN "flow_success" ELSE "flow_fail", 1,
                       metrics_enabled)
    /\ UNCHANGED <<timer_pc, wrapped>>

\* add_retry
AddRetry ==
    /\ timer_pc \in {"out", "body"}
    /\ calls < MaxCalls
    /\ calls' = calls + 1
    /\ metrics' = Bump(metrics, "step_retries", 1, metrics_enabled)
    /\ UNCHANGED <<timer_pc, wrapped>>

\* add_tokens
AddTokens(n) ==
    /\ timer_pc \in {"out", "body"}
    /\ calls < MaxCalls
    /\ calls' = calls + 1
    /\ metrics' = Bump(metrics, "tokens", n, metrics_enabled)
    /\ UNCHANGED <<timer_pc, wrapped>>

\* step_timer up to its yield: the with statement is entered
StepTimerEnter ==
    /\ timer_pc = "out"
    /\ calls < MaxCalls
    /\ calls' = calls + 1
    /\ metrics' = Bump(metrics, "inflight", 1, metrics_enabled)
    /\ timer_pc' = "body"
    /\ UNCHANGED wrapped

\* the wrapped code ends, normally or by raising; step_timer's finally block
\* runs and an exception of the wrapped code leaves the with statement
StepTimerExit(raises) ==
    /\ timer_pc = "body"
    /\ metrics' = Bump(Bump(metrics, "step_latency", 1, metrics_enabled),
                       "inflight", -1, metrics_enabled)
    /\ wrapped' = [ran |-> wrapped.ran + 1,
                   raised |-> wrapped.raised + (IF raises THEN 1 ELSE 0),
                   propagated |-> wrapped.propagated + (IF raises THEN 1 ELSE 0)]
    /\ timer_pc' = "out"
    /\ UNCHANGED calls

CollectorNext ==
    \/ FlowStart /\ UNCHANGED <<qvars, fvars, lvars, svars, gvars, psvars, kvars>>
    \/ \E success \in BOOLEAN : FlowEnd(success) /\ UNCHANGED <<qvars, fvars, lvars, svars, gvars, psvars, kvars>>
    \/ AddRetry /\ UNCHANGED <<qvars, fvars, lvars, svars, gvars, psvars, kvars>>
    \/ \E n \in 1..MaxTokens : AddTokens(n) /\ UNCHANGED <<qvars, fvars, lvars, svars, gvars, psvars, kvars>>
    \/ StepTimerEnter /\ UNCHANGED <<qvars, fvars, lvars, svars, gvars, psvars, kvars>>
    \/ \E raises \in BOOLEAN : StepTimerExit(raises) /\ UNCHANGED <<qvars, fvars, lvars, svars, gvars, psvars, kvars>>

\* a process that imported the collector, with AR_ENABLE_METRICS set to 1 or
\* not, before its first helper call
CollectorInit ==
    /\ AR_ENABLE_METRICS \in BOOLEAN
    /\ ALLOW_WRITES = FALSE
    /\ QIdle
    /\ FIdle
    /\ LIdle
    /\ SIdle
    /\ GIdle
    /\ PSIdle
    /\ KIdle
    /\ metrics = NoSamples
    /\ timer_pc = "out"
    /\ wrapped = [ran |-> 0, raised |-> 0, propagated |-> 0]
    /\ calls = 0

CollectorSpec == CollectorInit /\ [][CollectorNext]_vars

(***************************************************************************)
(* Part VII - the metrics assertion gate                                   *)
(***************************************************************************)
\* --p95-ms, default 1200.0
P95_MS == 1200
\* the `le` bounds of the modelled histogram: two of STEP_LAT_MS's buckets
\* around the threshold, and +Inf
LE_800 == 800
LE_1500 == 1500
LE_INF == 1000000
Les == {LE_800, LE_1500, LE_INF}

\* most observations of one label set in one bucket, and largest counter value
MaxObs == 1
\* most label sets (series) of the histogram in the scraped text
MaxSeries == 2

\* one label set of ar_step_latency_ms: its persona label and its cumulative
\* _bucket values; _count is the value of the +Inf bucket
LatencySeries ==
    {[persona |-> p, bucket |-> [le \in Les |-> IF le = LE_800 THEN a
                                                ELSE IF le = LE_1500 THEN a + b
                                                ELSE a + b + c]] :
        p \in Personas,
        a \in 0..MaxObs, b \in 0..MaxObs, c \in 0..MaxObs} \ 
      {sr \in [persona : Personas, bucket : [Les -> {0}]] : TRUE}
SeriesCount(sr) == sr.bucket[LE_INF]

\* the sample lines of a counter: one value per label set
CounterLines == UNION {[1..k -> 1..MaxObs] : k \in 0..MaxSeries}
Scrapes ==
    [started : CounterLines, success : CounterLines,
     latency : UNION {[1..k -> LatencySeries] : k \in 0..MaxSeries}]

RECURSIVE SumSeq(_)
SumSeq(q) == IF q = <<>> THEN 0 ELSE q[Len(q)] + SumSeq(SubSeq(q, 1, Len(q) - 1))

\* parse_histogram: buckets[persona][le] = val is assigned per line, so the
\* values of the persona's last label set stay
HistBuckets(lines, p) ==
    LET mine == {i \in 1..Len(lines) : lines[i].persona = p}
        last == CHOOSE i \in mine : \A j \in mine : j <= i
    IN  lines[last].bucket

\* parse_histogram: totals[persona] = totals.get(persona, 0.0) + val
HistTotal(lines, p) ==
    SumSeq([i \in 1..Len(lines) |->
              IF lines[i].persona = p THEN SeriesCount(lines[i]) ELSE 0])

\* set(buckets) | set(totals)
HistPersonas(lines) == {lines[i].persona : i \in 1..Len(lines)}

\* p95_from_hist; 0 stands for None
P95FromHist(buckets, total) ==
    LET reached == {le \in Les : 100 * buckets[le] >= 95 * total}
    IN  IF total = 0 \/ reached = {} THEN 0
        ELSE CHOOSE le \in reached : \A other \in reached : le <= other

Violations(lines) ==
    {p \in HistPersonas(lines) :
        LET p95 == P95FromHist(HistBuckets(lines, p), HistTotal(lines, p))
        IN  p95 # 0 /\ p95 > P95_MS}

\* the module body: counters must move, then the p95 check
AssertMetrics ==
    /\ gate_pc = "scraped"
    /\ gate_exit' =
          IF SumSeq(scraped.started) < 1 \/ SumSeq(scraped.success) < 1 THEN 1
          ELSE IF Violations(scraped.latency) # {} THEN 1
          ELSE 0
    /\ gate_pc' = "exited"
    /\ UNCHANGED scraped

GateNext ==
    \/ AssertMetrics /\ UNCHANGED <<qvars, fvars, lvars, svars, mvars, psvars, kvars>>

\* the script after scrape(args.url) returned the exposition text
GateInit ==
    /\ AR_ENABLE_METRICS = TRUE
    /\ ALLOW_WRITES = FALSE
    /\ QIdle
    /\ FIdle
    /\ LIdle
    /\ SIdle
    /\ MIdle
    /\ PSIdle
    /\ KIdle
    /\ scraped \in Scrapes
    /\ gate_pc = "scraped"
    /\ gate_exit = -1

GateSpec == GateInit /\ [][GateNext]_vars

(***************************************************************************)
(* Part VIII - the priority scheduler                                      *)
(***************************************************************************)
\* number of steps in the input tasks
MaxSteps == 3
\* largest `priority` of a step
MaxPriority == 2
\* _effort_balanced_scheduling: estimated_time >= 120 is high effort
HIGH_EFFORT == 120
\* step_data.get("estimated_time", 60)
DEFAULT_ESTIMATED_TIME == 60

Algorithms == {"PRIORITY_FIRST", "DEADLINE_DRIVEN", "EFFORT_BALANCED", "DEPENDENCY_CHAIN"}
Descriptions == {"Step 1", "Step 2"}

\* step_data: dependencies name steps by description
StepData ==
    [description : Descriptions,
     priority : 1..MaxPriority,
     estimated_time : {DEFAULT_ESTIMATED_TIME, HIGH_EFFORT},
     dependencies : {{}} \cup {{d} : d \in Descriptions}]

\* list.sort(key=...): the stable order of the indices 1..n by key
SortedBy(n, key) ==
    LET Rank(i) == 1 + Cardinality({j \in 1..n : \/ key[j] < key[i]
                                                 \/ key[j] = key[i] /\ j < i})
    IN  [pos \in 1..n |-> CHOOSE i \in 1..n : Rank(i) = pos]

\* the loop `for i in range(max_len)` of _effort_balanced_scheduling
RECURSIVE Interleave(_, _)
Interleave(high, low) ==
    IF high = <<>> THEN low
    ELSE IF low = <<>> THEN high
    ELSE <<Head(high), Head(low)>> \o Interleave(Tail(high), Tail(low))

Indices(st) == [i \in 1..Len(st) |-> i]

\* the list each algorithm hands to its scheduling loop
Prepared(alg, st) ==
    LET n == Len(st)
        ndeps(i) == Cardinality(st[i].dependencies)
    IN  CASE alg = "PRIORITY_FIRST" ->
               \* key (-priority, len(dependencies))
               SortedBy(n, [i \in 1..n |-> (MaxSteps + 1) * (0 - st[i].priority) + ndeps(i)])
          [] alg = "DEADLINE_DRIVEN" ->
               \* key (len(dependencies), -priority)
               SortedBy(n, [i \in 1..n |-> (MaxPriority + 2) * ndeps(i) - st[i].priority])
          [] alg = "EFFORT_BALANCED" ->
               Interleave(SelectSeq(Indices(st), LAMBDA i : st[i].estimated_time >= HIGH_EFFORT),
                          SelectSeq(Indices(st), LAMBDA i : st[i].estimated_time < HIGH_EFFORT))
          [] alg = "DEPENDENCY_CHAIN" ->
               \* key -(len(dependencies) + priority)
               SortedBy(n, [i \in 1..n |-> 0 - (ndeps(i) + st[i].priority)])

\* the steps of the list whose dependencies are all in `processed`
Available(list, st, done) == SelectSeq(list, LAMBDA i : st[i].dependencies \subseteq done)

\* max(available, key=lambda x: x.priority): the first one of largest priority
MaxPriorityOf(available, st) ==
    LET best == CHOOSE a \in 1..Len(available) :
                  /\ \A b \in 1..Len(available) :
                        st[available[b]].priority <= st[available[a]].priority
                  /\ \A b \in 1..(a - 1) :
                        st[available[b]].priority < st[available[a]].priority
    IN  available[best]

\* list.remove(x)
Remove(list, x) == SelectSeq(list, LAMBDA i : i # x)

\* the steps are converted to ScheduledTask objects and ordered
Convert ==
    /\ sched_pc = "convert"
    /\ pending' = Prepared(algorithm, steps)
    /\ sched_pc' = "loop"
    /\ UNCHANGED <<algorithm, steps, scheduled, processed, current_time>>

\* scheduled_start, scheduled_end are set and the step moves to `scheduled`
Place(i) ==
    /\ scheduled' = Append(scheduled,
                           [step |-> i,
                            scheduled_start |-> current_time,
                            scheduled_end |-> current_time + steps[i].estimated_time])
    /\ processed' = processed \cup {steps[i].description}
    /\ pending' = Remove(pending, i)
    /\ current_time' = current_time + steps[i].estimated_time

\* _priority_first_scheduling: one turn of `while scheduled_tasks`
PriorityFirstTurn ==
    /\ sched_pc = "loop"
    /\ algorithm = "PRIORITY_FIRST"
    /\ pending # <<>>
    /\ LET available == Available(pending, steps, processed)
       IN  IF available = <<>>
             THEN /\ sched_pc' = "returned"            \* break
                  /\ UNCHANGED <<pending, scheduled, processed, current_time>>
             ELSE /\ Place(MaxPriorityOf(available, steps))
                  /\ UNCHANGED sched_pc
    /\ UNCHANGED <<algorithm, steps>>

\* _schedule_with_dependencies: one turn of `while remaining`
WithDependenciesTurn ==
    /\ sched_pc = "loop"
    /\ algorithm # "PRIORITY_FIRST"
    /\ pending # <<>>
    /\ LET available == Available(pending, steps, processed)
       IN  Place(IF available = <<>> THEN pending[1] ELSE available[1])
    /\ UNCHANGED <<algorithm, steps, sched_pc>>

\* return scheduled
ScheduleReturn ==
    /\ sched_pc = "loop"
    /\ pending = <<>>
    /\ sched_pc' = "returned"
    /\ UNCHANGED <<algorithm, steps, pending, scheduled, processed, current_time>>

SchedulerNext ==
    \/ Convert /\ UNCHANGED <<qvars, fvars, lvars, svars, mvars, gvars, kvars>>
    \/ PriorityFirstTurn /\ UNCHANGED <<qvars, fvars, lvars, svars, mvars, gvars, kvars>>
    \/ WithDependenciesTurn /\ UNCHANGED <<qvars, fvars, lvars, svars, mvars, gvars, kvars>>
    \/ ScheduleReturn /\ UNCHANGED <<qvars, fvars, lvars, svars, mvars, gvars, kvars>>

\* schedule_tasks called on a scheduler of some algorithm with some tasks
SchedulerInit ==
    /\ AR_ENABLE_METRICS = FALSE
    /\ ALLOW_WRITES = FALSE
    /\ QIdle
    /\ FIdle
    /\ LIdle
    /\ SIdle
    /\ MIdle
    /\ GIdle
    /\ KIdle
    /\ algorithm \in Algorithms
    /\ steps \in [1..MaxSteps -> StepData]
    /\ pending = <<>>
    /\ scheduled = <<>>
    /\ processed = {}
    /\ current_time = 0
    /\ sched_pc = "convert"

SchedulerSpec == SchedulerInit /\ [][SchedulerNext]_vars

(***************************************************************************)
(* Part IX - idempotency keys                                              *)
(***************************************************************************)
\* json.dumps(payload, sort_keys=True)[:4096]
PAYLOAD_LIMIT == 4096

\* the ids of the modelled submissions, as strings of characters
Ids == {<<"a">>, <<"b">>, <<"a", ":", "a">>}

\* the JSON form of the modelled payloads, as runs of one character: a short
\* one, one of exactly PAYLOAD_LIMIT characters, and two that continue it
\* differently
PayloadTexts ==
    {<<[c |-> "x", n |-> 2]>>,
     <<[c |-> "x", n |-> PAYLOAD_LIMIT]>>,
     <<[c |-> "x", n |-> PAYLOAD_LIMIT], [c |-> "y", n |-> 1]>>,
     <<[c |-> "x", n |-> PAYLOAD_LIMIT], [c |-> "z", n |-> 1]>>}

StepTasks == [flow_id : Ids, task_id : Ids, step_id : Ids, payload : PayloadTexts]

\* s[:limit] of a text given as runs
RECURSIVE Truncate(_, _)
Truncate(runs, limit) ==
    IF runs = <<>> \/ limit = 0 THEN <<>>
    ELSE IF Head(runs).n <= limit
           THEN <<Head(runs)>> \o Truncate(Tail(runs), limit - Head(runs).n)
           ELSE <<[c |-> Head(runs).c, n |-> limit]>>

\* hashlib.blake2b(...).hexdigest(), taken as collision-free: the digest
\* stands for the text it was computed from
Blake2b(text) == [blake2b |-> text]

\* one character of a formatted string, and a hex digest embedded in one
Ch(c) == [kind |-> "char", val |-> <<[c |-> c, n |-> 1]>>]
Hex(digest) == [kind |-> "hexdigest", val |-> digest.blake2b]

\* _payload_hash
PayloadHash(payload) == Blake2b(Truncate(payload, PAYLOAD_LIMIT))

FormatId(id) == [i \in 1..Len(id) |-> Ch(id[i])]

\* _idempotency_key: f"{flow_id}:{task_id}:{step_id}:{payload_hash}", hashed
IdempotencyKey(flow_id, task_id, step_id, payload_hash) ==
    LET base == FormatId(flow_id) \o <<Ch(":")>> \o FormatId(task_id) \o <<Ch(":")>>
                  \o FormatId(step_id) \o <<Ch(":")>> \o <<Hex(payload_hash)>>
    IN  [prefix |-> "arx:idemp:", hexdigest |-> Blake2b(base)]

\* execute_step: ph = _payload_hash(payload); key = _idempotency_key(...)
DeriveKeys ==
    /\ key_pc = "submitted"
    /\ idem_keys' = [i \in 1..Len(submissions) |->
                       IdempotencyKey(submissions[i].flow_id, submissions[i].task_id,
                                      submissions[i].step_id,
                                      PayloadHash(submissions[i].payload))]
    /\ key_pc' = "derived"
    /\ UNCHANGED submissions

KeyNext ==
    \/ DeriveKeys /\ UNCHANGED <<qvars, fvars, lvars, svars, mvars, gvars, psvars>>

\* two step tasks submitted to execute_step
KeyInit ==
    /\ AR_ENABLE_METRICS = FALSE
    /\ ALLOW_WRITES = FALSE
    /\ QIdle
    /\ FIdle
    /\ LIdle
    /\ SIdle
    /\ MIdle
    /\ GIdle
    /\ PSIdle
    /\ submissions \in [1..2 -> StepTasks]
    /\ idem_keys = <<>>
    /\ key_pc = "submitted"

KeySpec == KeyInit /\ [][KeyNext]_vars

(***************************************************************************)
(* Part I - claims                                                         *)
(***************************************************************************)

\* executions of the step body under key k, finished or in progress
Executions(k) ==
    {t \in Tasks : task[t].key = k /\ (bodyRuns[t] > 0 \/ pc[t] = "body")}

\* C1: among all deliveries that carry the same (flow, task, step, payload),
\* in any interleaving, at most one executes the step body, and it is the
\* one that won SET NX; a delivery that lost SET NX ends IGNORED; the key's
\* flow_started_total is incremented at most once.
C1_AtMostOneBody ==
    /\ \A k \in Keys :
         /\ Cardinality(Executions(k)) <= 1
         /\ FLOW_STARTED[k] <= 1
         /\ \A t \in Executions(k) : claimed[k] = t /\ bodyRuns[t] <= 1
    /\ \A t \in Tasks :
         /\ ended[t] = "Ignore" => pc[t] = "IGNORED"
         /\ (pc[t] = "IGNORED" /\ claimed[task[t].key] # t) => bodyRuns[t] = 0

\* C1 witness: two submissions of one key, one ran the body to success, the
\* other was ignored as a duplicate without running it
C1_Witness ==
    \E t, u \in Tasks :
        /\ t # u /\ task[t].key = task[u].key
        /\ pc[t] = "SUCCESS" /\ bodyRuns[t] = 1
        /\ pc[u] = "IGNORED" /\ bodyRuns[u] = 0
        /\ FLOW_STARTED[task[t].key] = 1

\* C2 (as claimed): a task whose body raised is executed again on each
\* retry: when it is finished it has either succeeded or run the body
\* max_retries + 1 times.
C2_BodyRetried ==
    \A t \in Tasks :
        (bodyFails[t] > 0 /\ pc[t] \in Terminal) =>
            (pc[t] = "SUCCESS" \/ bodyRuns[t] = MAX_RETRIES + 1)

\* C3 (as claimed): a delivery refused by the rate check is always
\* re-enqueued: no task ends by the rate check.
C3_DeferredNeverDropped ==
    \A t \in Tasks : ended[t] = "Retry" => pc[t] \notin Terminal

C5_DeniedWithPermissionError ==
    \A t \in Tasks :
        /\ (task[t].exec_mode = "live" /\ (~ALLOW_WRITES \/ ~task[t].allow_destructive))
              => /\ bodyRuns[t] = 0 /\ pc[t] # "body"
                 /\ ended[t] \in {"none", "Retry", "PermissionError"}
        /\ task[t].exec_mode = "dry_run" => ended[t] # "PermissionError"

(***************************************************************************)
(* Part II - claims                                                        *)
(***************************************************************************)

\* nodes whose body has been attempted at least once
Executed == {n \in Nodes : hist[n] # <<>>}

\* nodes with an entry in results
Recorded == {n \in Nodes : results[n].status # "absent"}

\* the first k nodes of an order
Prefix(o, k) == {o[i] : i \in 1..k}

\* the nodes reachable from n along edges
Descendants(f, n) ==
    LET step(S) == S \cup {m \in Nodes : \E p \in S : p \in Predecessors(f, m)}
    IN step(step(step({n}))) \ {n}

\* C6: a node's body is executed only after every predecessor has a recorded
\* result with status success, so the set of executed nodes is at every
\* point a prefix of some topological order of the flow's DAG.
C6_TopologicalExecution ==
    /\ \A n \in Executed : \A p \in Predecessors(flow, n) : results[p].status = "success"
    /\ \E o \in TopologicalOrders(flow) : \E k \in 0..Cardinality(Nodes) :
           Executed = Prefix(o, k)

\* C6 witness: a node with a predecessor is being executed after an
\* unrelated node was executed before that predecessor
C6_Witness ==
    /\ fpc = "attempt" /\ idx = 3
    /\ Predecessors(flow, execution_order[3]) = {execution_order[2]}
    /\ Predecessors(flow, execution_order[2]) = {}
    /\ results[execution_order[1]].status = "failed"
    /\ hist[execution_order[3]] # <<>>

\* the claim's condition for skipping n, read on the results recorded so far
SkipCondition(n) ==
    \E p \in Predecessors(flow, n) :
        \/ results[p].status # "success"
        \/ LET x == flow.edges[<<p, n>>] IN
             x \in Nodes /\ results[x].status \notin {"absent", "success"}

\* C7: with fail_fast=false the node at the head of the loop is marked
\* skipped exactly when a predecessor's status is not success or the `when`
\* of an incoming edge names a node whose status is not success; a body is
\* never attempted while that condition holds; every node ends with a result,
\* skipped ones without any attempt, and every descendant of a failed node
\* ends skipped.
C7_SkipExactly ==
    /\ [][flow.fail_fast = "false" =>
            \A n \in Nodes :
              /\ (results[n].status = "absent" /\ results'[n].status = "skipped")
                    => SkipCondition(n)
              /\ (results[n].status = "absent" /\ results'[n].status \in {"success", "failed"})
                    => ~SkipCondition(n)
              /\ hist'[n] # hist[n] => ~SkipCondition(n)]_vars
    /\ []((flow.fail_fast = "false" /\ fpc = "returned") =>
            \A n \in Nodes :
              /\ results[n].status \in {"success", "failed", "skipped"}
              /\ results[n].status = "skipped" <=> hist[n] = <<>>
              /\ results[n].status = "failed" =>
                    \A d \in Descendants(flow, n) : results[d].status = "skipped")

\* C7 witness (scenario S5): n1 -> n2 -> n3, n1 failed, n2 and n3 skipped
C7_Witness ==
    /\ fpc = "returned" /\ flow.fail_fast = "false"
    /\ flow.edges[<<"n1", "n2">>] # "no_edge" /\ flow.edges[<<"n2", "n3">>] # "no_edge"
    /\ flow.edges[<<"n1", "n3">>] = "no_edge"
    /\ results["n1"].status = "failed"
    /\ results["n2"].status = "skipped" /\ results["n3"].status = "skipped"

\* C8: with fail_fast true or omitted, once a node has status failed the
\* run has stopped: the results hold exactly the nodes of the order up to
\* and including the failed one, no later node is attempted or recorded,
\* and nothing is recorded afterwards.
C8_FailFastStops ==
    /\ []((flow.fail_fast \in {"true", "omitted"} /\ \E n \in Nodes : results[n].status = "failed") =>
            /\ fpc \in {"summary", "returned"}
            /\ results[execution_order[idx]].status = "failed"
            /\ Recorded = Prefix(execution_order, idx)
            /\ \A i \in (idx + 1)..Len(execution_order) :
                  hist[execution_order[i]] = <<>>)
    /\ [][(flow.fail_fast \in {"true", "omitted"} /\ \E n \in Nodes : results[n].status = "failed") =>
            (results' = results /\ hist' = hist)]_vars

\* C8 witness: config omits fail_fast, the second node of the order failed
\* and the run returned with the third node absent
C8_Witness ==
    /\ flow.fail_fast = "omitted" /\ fpc = "returned" /\ idx = 2
    /\ results[execution_order[1]].status = "success"
    /\ results[execution_order[2]].status = "failed"
    /\ results[execution_order[3]].status = "absent"

\* C9: a node with retries=R is attempted at most R+1 times; its result is
\* success with attempts=k and k-1 retry increments when attempt k <= R+1 is
\* the first to succeed, and failed with attempts=R+1 and R retry increments
\* when none of the R+1 attempts succeeds.
C9_RetryAccounting ==
    \A n \in Nodes :
        LET R == flow.retries[n]
            h == hist[n]
            k == Len(h)
        IN /\ k <= R + 1
           /\ \A i \in 1..(k - 1) : ~h[i]
           /\ results[n].status = "success" =>
                 /\ k >= 1 /\ h[k]
                 /\ results[n].attempts = k
                 /\ step_retries[n] = k - 1
           /\ results[n].status = "failed" =>
                 /\ k = R + 1 /\ ~h[k]
                 /\ results[n].attempts = R + 1
                 /\ step_retries[n] = R
           /\ (results[n].status = "absent" /\ k >= 1) =>
                 /\ ~h[k] /\ attempt = k + 1 /\ step_retries[n] = k

\* C9 witness: a node with retries >= 1 that failed once and then succeeded
C9_Witness ==
    \E n \in Nodes :
        /\ flow.retries[n] >= 1
        /\ hist[n] = <<FALSE, TRUE>>
        /\ results[n] = [status |-> "success", attempts |-> 2]
        /\ step_retries[n] = 1

\* body attempts of the whole run
RECURSIVE SumLen(_)
SumLen(S) == IF S = {} THEN 0
             ELSE LET n == CHOOSE m \in S : TRUE IN Len(hist[n]) + SumLen(S \ {n})

TotalAttempts == SumLen(Nodes)

\* the largest retries value among the flow's nodes
LargestRetries(f) == CHOOSE r \in 0..MaxNodeRetries :
                        /\ \E n \in Nodes : f.retries[n] = r
                        /\ \A n \in Nodes : f.retries[n] <= r

FDone == fpc \in {"returned", "raised"}

\* C10: execute_flow terminates on every lint-valid flow, whatever the
\* bodies do, after at most |nodes| x (max_retries + 1) body attempts.
C10_Terminates ==
    /\ <>FDone
    /\ [](TotalAttempts <= Cardinality(Nodes) * (LargestRetries(flow) + 1))

\* C10 witness: a finished run that used every attempt the bound allows
C10_Witness ==
    /\ fpc = "returned"
    /\ LargestRetries(flow) >= 1
    /\ TotalAttempts = Cardinality(Nodes) * (LargestRetries(flow) + 1)

(***************************************************************************)
(* Part II - claims on timeouts                                            *)
(***************************************************************************)

\* C11 (as claimed): when _execute_node returns for a live node all of
\* whose attempts hit the node's timeout, the node was attempted
\* retries+1 times and the recorded result has status timeout.
C11_TimeoutTerminal ==
    [][\A n \in Nodes :
          (/\ ~dry_run
           /\ results[n].status = "absent"
           /\ results'[n].status \notin {"absent", "skipped"}
           /\ all_timed_out')
             => /\ Len(hist'[n]) = flow.retries[n] + 1
                /\ results'[n].attempts = flow.retries[n] + 1
                /\ results'[n].status = "timeout"]_vars

(***************************************************************************)
(* Parts II and III - claims on guards, the command line and metrics       *)
(***************************************************************************)

\* C12: when a listed guard returns false, is not registered or raises, no
\* guard after it is looked at, execute_flow has raised, no node has a
\* result or an attempt, and the counters show one flow_start, one
\* flow_end(success=False) and no flow success.
C12_GuardsBlock ==
    /\ Len(guard_log) <= Len(flow.guards)
    /\ \A i \in 1..Len(guard_log) :
          /\ guard_log[i].name = flow.guards[i]
          /\ guard_log[i].outcome # "true" =>
                /\ i = Len(guard_log)
                /\ fpc = "raised"
                /\ \A n \in Nodes : results[n] = NoResult /\ hist[n] = <<>>
                /\ flow_started_total = 1
                /\ flow_fail_total = 1
                /\ flow_success_total = 0

\* C12 witness: git_clean fails in front of dry_run_unless_allowed, which is
\* never looked at
C12_Witness ==
    /\ flow.guards = <<"git_clean", "dry_run_unless_allowed">>
    /\ guard_log = <<[name |-> "git_clean", outcome |-> "false"]>>
    /\ fpc = "raised"
    /\ flow_fail_total = 1

\* C13 (as claimed): under `flow run --live` no node is attempted unless
\* both AR_ENABLE_FLOW_ENGINE=1 and ALLOW_WRITES=1 are set.
C13_LiveNeedsBothFlags ==
    (live /\ ~(AR_ENABLE_FLOW_ENGINE /\ ALLOW_WRITES))
        => \A n \in Nodes : hist[n] = <<>> /\ results[n] = NoResult

\* C14: `flow run` has exit code 0 exactly when execute_flow returned and
\* no result of the run has status failed; an unknown flow id, a failed
\* guard or any other exception gives exit code 1.
C14_ExitCode ==
    /\ cli # "exited" => exit_code = -1
    /\ cli = "exited" =>
          /\ exit_code \in {0, 1}
          /\ exit_code = 0 <=>
                (fpc = "returned" /\ \A n \in Nodes : results[n].status # "failed")
          /\ ~known => exit_code = 1
          /\ (\E i \in 1..Len(guard_log) : guard_log[i].outcome # "true") => exit_code = 1

\* C14 witness: the run returned its summary (and counted a flow success)
\* with a failed node, and the command exited 1
C14_Witness ==
    /\ cli = "exited" /\ exit_code = 1
    /\ fpc = "returned" /\ flow_success_total = 1
    /\ \E n \in Nodes : results[n].status = "failed"

\* C15 (amended): step_latency_ms gets exactly one observation per body
\* attempt, whatever the attempt's outcome; a node that was executed ends
\* with as many samples as its final attempts value, and a skipped node has
\* no sample while its result carries attempts = 1.
C15_LatencyPerAttempt ==
    \A n \in Nodes :
        /\ step_latency[n] = Len(hist[n])
        /\ results[n].status \in {"success", "failed"} =>
              step_latency[n] = results[n].attempts
        /\ results[n].status = "skipped" =>
              step_latency[n] = 0 /\ results[n].attempts = 1

\* C15 (as claimed): the number of latency samples of every node with a
\* result equals the attempts value of that result.
C15_SamplesEqualAttempts ==
    \A n \in Nodes :
        results[n].status # "absent" => step_latency[n] = results[n].attempts

\* C15 witness: a live node timed out on both of its attempts and has two
\* samples
C15_Witness ==
    /\ ~dry_run /\ fpc = "summary" /\ all_timed_out
    /\ results[execution_order[idx]] = [status |-> "failed", attempts |-> 2]
    /\ step_latency[execution_order[idx]] = 2

\* C17 (as claimed, the runner's half): execute_flow on a flow with zero
\* nodes does not return a summary, records no flow success, and
\* `flow run` does not exit 0.
C17_ZeroNodeRefused ==
    (known /\ flow.nodes = {})
        => fpc # "returned" /\ flow_success_total = 0 /\ exit_code # 0

(***************************************************************************)
(* Part I - claims on the idempotency record                               *)
(***************************************************************************)

\* C16 (as claimed): an idempotency key holds "running" exactly while some
\* worker is executing the step body for it, and holds "done" once an
\* execution for it has finished.
C16_RunningOnlyWhileExecuting ==
    \A k \in Keys :
        /\ idemp[k] = "running" <=> \E t \in Tasks : task[t].key = k /\ pc[t] = "body"
        /\ (/\ \E t \in Tasks : task[t].key = k /\ bodyRuns[t] > 0
            /\ \A t \in Tasks : task[t].key = k => pc[t] # "body")
              => idemp[k] = "done"

(***************************************************************************)
(* Part IV - claims                                                        *)
(***************************************************************************)

\* the flow has a graph: `nodes` is a mapping and `edges` a list of mappings
HasGraph(f) == f.nodes.shape = "dict" /\ f.edges.shape = "list"

DeclaredNodes(f) == IF f.nodes.shape = "dict" THEN f.nodes.keys ELSE {}

\* the edges of the flow that name both endpoints, as pairs
Arcs(f) ==
    {<<e.from, e.to>> :
        e \in {f.edges.items[i] : i \in 1..Len(f.edges.items)} \ 
                 {d \in EdgeEntries : d.from = "missing" \/ d.to = "missing"}}

\* some closed walk follows the edges of the flow
HasCycle(f) ==
    \E k \in 1..Cardinality(EdgeEnds) :
        \E p \in [1..k -> EdgeEnds] :
            \A i \in 1..k : <<p[i], p[(i % k) + 1]>> \in Arcs(f)

HasRoot(f) == \E v \in DeclaredNodes(f) : \A e \in Arcs(f) : e[2] # v

C19_OneResultPerFlow ==
    /\ lint_pc # "raised"
    /\ lint_pc = "returned" => Len(lint_results) = Len(registry)

(***************************************************************************)
(* Part V - claims                                                         *)
(***************************************************************************)

\* C20: every label value on an emitted sample consists only of characters
\* of [A-Za-z0-9_-./], has length 1..64, and is the literal `unknown` when
\* the value given was None or empty; _san applied to it returns it
\* unchanged.
C20_LabelsSanitized ==
    /\ label_pc \in {"emitted", "done"} =>
          /\ \A i \in 1..Len(label) :
                label[i] \in Lower \cup Upper \cup Digits \cup {"_", "-", ".", "/"}
          /\ Len(label) >= 1
          /\ Len(label) <= 64
          /\ (raw.kind = "None" \/ (raw.kind = "str" /\ raw.val = <<>>)) =>
                label = <<"u", "n", "k", "n", "o", "w", "n">>
    /\ label_pc = "done" => relabel = label

\* C20 witness: a 66-character value with characters outside the class was
\* emitted as a 64-character label and sanitized once more.
C20_Witness ==
    /\ label_pc = "done"
    /\ raw.kind = "str"
    /\ Len(raw.val) = 66
    /\ raw.val[1] = "@"
    /\ raw.val[66] = "a"
    /\ Len(label) = 64
    /\ label[1] = "_"

(***************************************************************************)
(* Part VI - claims                                                        *)
(***************************************************************************)

\* C21: while AR_ENABLE_METRICS is not 1, every collector helper leaves every
\* counter, histogram and gauge unchanged; the code wrapped by step_timer
\* still runs and its exceptions still propagate.
C21_DisabledIsNoOp ==
    [][~AR_ENABLE_METRICS =>
         /\ metrics' = metrics
         /\ timer_pc = "body" /\ timer_pc' = "out" =>
               /\ wrapped'.ran = wrapped.ran + 1
               /\ wrapped'.propagated - wrapped.propagated
                    = wrapped'.raised - wrapped.raised]_vars

\* C21 witness: with metrics disabled, every call of the budget was made,
\* wrapped code ran and raised, and no metric has a sample.
C21_Witness ==
    /\ ~AR_ENABLE_METRICS
    /\ calls = MaxCalls
    /\ wrapped.ran >= 1
    /\ wrapped.propagated >= 1
    /\ timer_pc = "out"
    /\ metrics = NoSamples

(***************************************************************************)
(* Part VII - claims                                                       *)
(***************************************************************************)

\* cumulative count at `le` over all samples of persona p, whatever label
\* set they are in
PersonaCumulative(p, le) ==
    SumSeq([i \in 1..Len(scraped.latency) |->
              IF scraped.latency[i].persona = p THEN scraped.latency[i].bucket[le] ELSE 0])

\* the persona's p95 exceeds the threshold: it has samples, and no bucket
\* bound up to the threshold holds 95% of them
P95Exceeds(p) ==
    /\ PersonaCumulative(p, LE_INF) > 0
    /\ \A le \in Les :
          100 * PersonaCumulative(p, le) >= 95 * PersonaCumulative(p, LE_INF) => le > 1200

\* C22 (as claimed): the gate exits non-zero whenever flow_started_total < 1,
\* or flow_success_total < 1, or some persona's p95 of step_latency_ms, taken
\* over all of that persona's samples, exceeds the threshold.
C22_GateFails ==
    gate_pc = "exited" =>
        ((\/ SumSeq(scraped.started) < 1
          \/ SumSeq(scraped.success) < 1
          \/ \E p \in Personas : P95Exceeds(p)) => gate_exit # 0)

(***************************************************************************)
(* Part II - claims on the envelope                                        *)
(***************************************************************************)

\* C23 (as claimed): for every executed node, the envelope stored in its
\* result has provenance.validation_status = completed if and only if the
\* node's terminal status is success, and failed otherwise, whatever the
\* node's success_condition and also when it timed out.
C23_EnvelopeMirrorsStatus ==
    envelope.node # "" =>
        /\ envelope.validation_status = "completed"
              <=> results[envelope.node].status = "success"
        /\ envelope.validation_status = "failed"
              <=> results[envelope.node].status # "success"

(***************************************************************************)
(* Part VIII - claims                                                      *)
(***************************************************************************)

\* position of step i in the returned list (0 = not in it)
PositionOf(i) ==
    IF \E a \in 1..Len(scheduled) : scheduled[a].step = i
      THEN CHOOSE a \in 1..Len(scheduled) : scheduled[a].step = i
      ELSE 0

\* C24 (as claimed): in the returned list, for every algorithm and input,
\* each step comes after every other step named in its dependencies and
\* starts no earlier than that step ends.
C24_DependenciesFirst ==
    sched_pc = "returned" =>
        \A a \in 1..Len(scheduled) :
            \A j \in 1..Len(steps) :
                (j # scheduled[a].step
                   /\ steps[j].description \in steps[scheduled[a].step].dependencies) =>
                    /\ PositionOf(j) # 0
                    /\ PositionOf(j) < a
                    /\ scheduled[PositionOf(j)].scheduled_end <= scheduled[a].scheduled_start

\* C25 (as claimed): the returned list holds every input step exactly once,
\* for every input; with PRIORITY_FIRST and no dependencies it is in
\* non-increasing priority order.
C25_EveryStepOnce ==
    sched_pc = "returned" =>
        /\ Len(scheduled) = Len(steps)
        /\ \A i \in 1..Len(steps) :
              Cardinality({a \in 1..Len(scheduled) : scheduled[a].step = i}) = 1
        /\ (algorithm = "PRIORITY_FIRST" /\ \A i \in 1..Len(steps) : steps[i].dependencies = {}) =>
              \A a, b \in 1..Len(scheduled) :
                  a < b => steps[scheduled[a].step].priority >= steps[scheduled[b].step].priority

(***************************************************************************)
(* Part I - claims on the order of the guards                              *)
(***************************************************************************)

\* C26 (as claimed): the write-safety guards come before the rate check and
\* the idempotency claim: a delivery denied with PermissionError has not set
\* the idempotency key, has not been counted against the persona's rate
\* limit, and is not re-enqueued.
C26_GuardsBeforeClaim ==
    \A t \in Tasks :
        ended[t] = "PermissionError" =>
            /\ claimed[task[t].key] # t
            /\ idemp[task[t].key] # "running"
            /\ \A w \in Windows : passes[task[t].persona][w] = 0
            /\ retries[t] = 0
            /\ pc[t] = "FAILURE"

(***************************************************************************)
(* Part IX - claims                                                        *)
(***************************************************************************)

\* C27 (as claimed): two step tasks share an idempotency key only if they
\* agree on flow_id, task_id, step_id and payload, also when ids contain the
\* `:` separator and when payloads differ only beyond the first 4096
\* characters of their JSON form.
C27_KeysDistinct ==
    key_pc = "derived" =>
        (idem_keys[1] = idem_keys[2] =>
            /\ submissions[1].flow_id = submissions[2].flow_id
            /\ submissions[1].task_id = submissions[2].task_id
            /\ submissions[1].step_id = submissions[2].step_id
            /\ submissions[1].payload = submissions[2].payload)

(***************************************************************************)
(* Part I - claims on what the key leaves out                              *)
(***************************************************************************)

\* C28: the idempotency key does not depend on persona, exec_mode or
\* allow_destructive: once a dry_run delivery of (flow, task, step, payload)
\* has executed under the key, a live delivery with the same four values is
\* ignored as a duplicate and its body never runs.
C28_LiveIgnoredAfterDryRun ==
    \A t, u \in Tasks :
        (/\ task[t].key = task[u].key
         /\ task[t].exec_mode = "dry_run"
         /\ task[u].exec_mode = "live"
         /\ bodyRuns[t] > 0 \/ pc[t] = "body") =>
            /\ bodyRuns[u] = 0
            /\ pc[u] \notin {"body", "SUCCESS"}
            /\ ended[u] \in {"none", "Retry", "Ignore"}
            /\ ended[u] = "Ignore" => pc[u] = "IGNORED"

\* C28 witness: a permitted live delivery (ALLOW_WRITES=1,
\* allow_destructive=True), of another persona than the dry_run delivery
\* that executed under the same key, was ignored without running its body.
C28_Witness ==
    \E t, u \in Tasks :
        /\ task[t].key = task[u].key
        /\ task[t].exec_mode = "dry_run" /\ bodyRuns[t] > 0
        /\ task[u].exec_mode = "live" /\ task[u].allow_destructive /\ ALLOW_WRITES
        /\ task[u].persona # task[t].persona
        /\ pc[u] = "IGNORED" /\ bodyRuns[u] = 0

(***************************************************************************)
(* Part I - claims on the flow counters and the summary                    *)
(***************************************************************************)

\* C29: execute_flow emits one flow_end for every flow_start: while the run
\* is under way one flow_start and no flow_end is counted; a run that
\* returns has counted one flow_start and one flow_end(success=true),
\* whatever the node results are; a run that raises after flow_start has
\* counted one flow_end(success=false) and no success; an unknown flow id
\* raises with all three counters unchanged.
C29_OneFlowEndPerFlowStart ==
    /\ fpc \in {"idle", "init"} =>
           flow_started_total = 0 /\ flow_success_total = 0 /\ flow_fail_total = 0
    /\ fpc \in {"loop", "attempt", "summary"} =>
           flow_started_total = 1 /\ flow_success_total = 0 /\ flow_fail_total = 0
    /\ fpc = "returned" =>
           flow_started_total = 1 /\ flow_success_total = 1 /\ flow_fail_total = 0
    /\ (fpc = "raised" /\ known) =>
           flow_started_total = 1 /\ flow_success_total = 0 /\ flow_fail_total = 1
    /\ (fpc = "raised" /\ ~known) =>
           flow_started_total = 0 /\ flow_success_total = 0 /\ flow_fail_total = 0

\* C29 witness: a run returned a summary with failed_nodes > 0 and was
\* counted as a success.
C29_Witness ==
    /\ fpc = "returned"
    /\ \E n \in Nodes : results[n].status = "failed"
    /\ flow_started_total = 1 /\ flow_success_total = 1 /\ flow_fail_total = 0

\* C30: a returned run of a lint-valid flow without failed node has run
\* every node of the flow to success: none is skipped, none is absent from
\* the results, total_nodes is the number of nodes and success_rate is 1.
C30_NoFailureNoSkip ==
    (/\ fpc = "returned"
     /\ \A n \in Nodes : results[n].status # "failed") =>
        /\ \A n \in Nodes : results[n].status = "success"
        /\ GenerateExecutionSummary(results).total_nodes = Cardinality(Nodes)
        /\ GenerateExecutionSummary(results).successful_nodes
               = GenerateExecutionSummary(results).total_nodes

\* C30 witness: a run over a flow with a conditional edge returned with
\* every node successful.
C30_Witness ==
    /\ fpc = "returned"
    /\ \E e \in EdgePairs : flow.edges[e] = "n2"
    /\ \A n \in Nodes : results[n].status = "success"

====
